---- MODULE Spec2Model ----
(***************************************************************************)
(* Model of python/model_server.py: the module-level load state           *)
(* (default_model, default_model_path, default_model_loaded), the          *)
(* strategy chains of load_model and load_with_standalone_keras, and the   *)
(* /load_model and /predict routes, each handled by a request worker of    *)
(* the threaded Flask server.  A step of a worker is one read or write of  *)
(* the module-level state together with the local code around it.          *)
(***************************************************************************)
EXTENDS Naturals, Sequences, FiniteSets, TLC

\* Number of request workers that may run handlers at the same time.
NumWorkers == 2

Threads == 1..NumWorkers

\* Values a model_path may take: a file that is not there, a JSON value
\* for which os.path.exists raises, and two artifact files that exist.
Paths == {"missing.h5", "nonstr", "a.h5", "b.h5"}

ExistingPaths == {"a.h5", "b.h5"}

\* Python None for the path and for the model object.
NonePath == "None"

NoModel == [path |-> "None", by |-> "None"]

\* loading_methods of load_model, in list order.
loading_methods ==
    <<"standalone_keras", "tf_keras", "legacy_keras", "direct_keras_import">>

\* loading_attempts of load_with_standalone_keras, in list order.
\* Variant of loading_attempts: the plain keras load is ahead of the
\* reconstruction.
loading_attempts_plain_first ==
    <<"keras_custom_objects", "h5_reconstruction",
      "tf_keras_custom_objects", "weights_only">>

loading_attempts ==
    <<"h5_reconstruction", "keras_custom_objects",
      "tf_keras_custom_objects", "weights_only">>

\* What one strategy call can do: return a model / True, return None /
\* False, or raise.  The replacement-architecture branch of tf_keras and
\* legacy_keras (taken on a 'batch_shape' error) yields another model.
InnerOutcomes == {"ok", "false", "raise"}

MethodOutcomes(name) ==
    IF name \in {"tf_keras", "legacy_keras"}
    THEN {"ok", "ok_weights", "false", "raise"}
    ELSE {"ok", "false", "raise"}

\* The model object a strategy produces for a path.
ModelOf(p, name, outcome) ==
    [path |-> p, by |-> IF outcome = "ok_weights" THEN name \o "+weights" ELSE name]

\* Bodies of a /predict request: no image field, an image string that does
\* not decode, an image that decodes.
Images == {"noimage", "bad", "good"}

Absent == "absent"

NoResp ==
    [kind |-> "none", status |-> 0, success |-> Absent, loaded |-> Absent,
     path |-> Absent, error |-> Absent, degraded |-> Absent,
     health |-> Absent, model_loaded |-> Absent,
     model |-> NoModel, same_model |-> TRUE]

\* class_labels, lines 37-38, in list order.
class_labels ==
    <<"IG Immature White Cell", "Basophil", "Eosinophil", "Erythroblast",
      "Lymphocyte", "Monocyte", "Neutrophil", "Platelet">>

\* Longest output vector a model is taken to return.
MaxOutputLen == 9

\* predictions[0] of line 463: a vector with the score 9 at positions i and
\* j and the score 1 everywhere else (one peak when i = j, a tie otherwise).
OutputVector(n, i, j) == [k \in 1..n |-> IF k = i \/ k = j THEN 9 ELSE 1]

OutputVectors ==
    {OutputVector(n, i, j) : n \in 1..MaxOutputLen, i \in 1..MaxOutputLen,
                             j \in 1..MaxOutputLen}

\* The outputs the request workers see: a model with one output too few,
\* one with as many outputs as labels, one with one output too many, each
\* with its peak at the last position.
WorkerOutputs ==
    {OutputVector(n, n, n) :
        n \in {Len(class_labels) - 1, Len(class_labels), Len(class_labels) + 1}}

\* No call of the post-processing of predict_image has been made.
NoResult ==
    [raised |-> "not called", cell_type |-> Absent, confidence |-> 0,
     all_probabilities |-> <<>>, keys |-> {}]

(***************************************************************************)
(* JSON values of an architecture description: a scalar, a list of values, *)
(* or a dictionary, which is a function from its keys to values.           *)
(***************************************************************************)
Scalar(x) == [tag |-> "scalar", v |-> x]

List(items) == [tag |-> "list", v |-> items]

Dict(f) == [tag |-> "dict", v |-> f]

Null == Scalar("None")

\* Shapes as Keras writes them: null, or a list of dimensions, the first
\* one being the batch dimension.
Shapes ==
    {Null, List(<<>>), List(<<Null>>), List(<<Null, Scalar("4")>>),
     List(<<Null, Scalar("4"), Scalar("4"), Scalar("3")>>)}

\* Every layer configuration has a name.
Named == "name" :> Scalar("layer")

\* The shape fields of a layer configuration: none, batch_shape, or
\* batch_input_shape, alone or next to an input_shape.
ShapeFields ==
    {Named}
    \cup {"batch_shape" :> s : s \in Shapes}
    \cup {"batch_input_shape" :> s : s \in Shapes}
    \cup {("batch_input_shape" :> s) @@ ("input_shape" :> List(<<Scalar("8")>>)) :
             s \in Shapes}

\* The dtype fields of a layer configuration: none, one of the policy keys
\* with a name, or dtype with a serialized policy object.
DtypeFields ==
    {Named}
    \cup {k :> Scalar("float32") :
             k \in {"dtype", "dtype_policy", "mixed_precision_policy", "policy",
                    "_dtype_policy"}}
    \cup {"dtype" :> Dict(("class_name" :> Scalar("DTypePolicy"))
                            @@ ("config" :> Dict("name" :> Scalar("float32"))))}

LayerConfigs == {Dict(s @@ d @@ Named) : s \in ShapeFields, d \in DtypeFields}

Layer(c) == Dict(("class_name" :> Scalar("InputLayer")) @@ ("config" :> c))

\* A model description with two layers, the first with configuration c.
Model(c) ==
    Dict(("class_name" :> Scalar("Sequential"))
         @@ ("dtype" :> Scalar("float32"))
         @@ ("config" :>
               Dict(("name" :> Scalar("sequential"))
                    @@ ("layers" :>
                          List(<<Layer(c),
                                 Layer(Dict(("dtype" :> Scalar("float32"))
                                            @@ Named))>>)))))

\* c inside a list inside a list.
Nested(c) == List(<<List(<<c>>), Scalar("x")>>)

\* The descriptions clean_config_advanced is applied to.
Trees ==
    LayerConfigs
    \cup {Layer(c) : c \in LayerConfigs}
    \cup {Model(c) : c \in LayerConfigs}
    \cup {Nested(c) : c \in LayerConfigs}

\* Upper bound of the number of calls of clean_config_advanced on one tree.
MaxCleanings == 2

\* Largest width and height of a submitted image, and largest side of the
\* square input of a model.
MaxSide == 8

MaxInputSide == 3

\* No image has been preprocessed.
NoBatch == [size |-> <<>>, box |-> <<>>]

\* common_input_shapes, lines 293-299: the side of each candidate input.
common_input_shapes == <<224, 150, 128, 64, 256>>

Candidates == 1..Len(common_input_shapes)

VARIABLES
    default_model,          \* module global, line 30
    default_model_path,     \* module global, line 31
    default_model_loaded,   \* module global, line 32
    server,                 \* "boot" while the module body runs, then "serving"
    pc,                     \* where each worker is in its handler
    caller,                 \* who called load_model: "route" or "startup"
    model_path,             \* the model_path argument of the worker's load call
    outer_log,              \* load_model's loop: methods tried so far, with outcome
    inner_log,              \* load_with_standalone_keras' loop: attempts tried so far
    ret,                    \* what load_model returned / how it ended
    image,                  \* the image field of the worker's predict request
    shape_model,            \* the model whose input_shape predict_image read
    resp,                   \* the response the worker's handler produced
    load_succeeded,         \* history: some load_model call has returned True
    predictions,            \* predictions[0] of a predict_image call, line 463
    result,                 \* what that call returned or raised, lines 466-486
    config_in,              \* json.loads(model_config), line 201, as loaded
    config,                 \* the same object after the calls of line 235
    cleanings,              \* how often clean_config_advanced(config) was called
    image_size,             \* (width, height) of the image opened at line 434
    input_shape,            \* default_model.input_shape, line 437
    img_batch,              \* the batch of line 458: its size and what it shows
    builds_ok,              \* candidate shape -> keras.Sequential(...) does not raise
    binds_ok,               \* candidate shape -> load_weights on its model does not raise
    wo_pc,                  \* where the load_weights_only_approach call is
    shapes_tried,           \* candidates whose model was constructed, in order
    shapes_bound,           \* candidates whose model load_weights was called on
    wo_ret                  \* candidate whose model was returned, 0 for None

classify_vars == <<predictions, result>>

sanitize_vars == <<config_in, config, cleanings>>

preprocess_vars == <<image_size, input_shape, img_batch>>

template_vars ==
    <<builds_ok, binds_ok, wo_pc, shapes_tried, shapes_bound, wo_ret>>

\* The variables of the calls that are followed on their own, outside the
\* request workers.
calls == <<classify_vars, sanitize_vars, preprocess_vars, template_vars>>

vars == <<default_model, default_model_path, default_model_loaded, server, pc,
          caller, model_path, outer_log, inner_log, ret, image, shape_model,
          resp, load_succeeded, calls>>

globals == <<default_model, default_model_path, default_model_loaded>>

\* The state of the server after the module globals are set, lines 30-32.
ServerInit ==
    /\ default_model = NoModel
    /\ default_model_path = NonePath
    /\ default_model_loaded = FALSE
    /\ server = "boot"
    /\ pc = [t \in Threads |-> "idle"]
    /\ caller = [t \in Threads |-> "none"]
    /\ model_path = [t \in Threads |-> NonePath]
    /\ outer_log = [t \in Threads |-> <<>>]
    /\ inner_log = [t \in Threads |-> <<>>]
    /\ ret = [t \in Threads |-> "none"]
    /\ image = [t \in Threads |-> "none"]
    /\ shape_model = [t \in Threads |-> NoModel]
    /\ resp = [t \in Threads |-> NoResp]
    /\ load_succeeded = FALSE

\* No post-processing call is followed on its own.
NoClassifyCall == predictions = <<>> /\ result = NoResult

\* No description is being sanitized.
NoSanitizeCall == config_in = Null /\ config = Null /\ cleanings = 0

\* No image is being preprocessed.
NoPreprocessCall == image_size = <<>> /\ input_shape = <<>> /\ img_batch = NoBatch

\* No load_weights_only_approach call is followed on its own.
NoTemplateCall ==
    /\ builds_ok = <<>>
    /\ binds_ok = <<>>
    /\ wo_pc = "none"
    /\ shapes_tried = <<>>
    /\ shapes_bound = <<>>
    /\ wo_ret = 0

Init ==
    /\ ServerInit
    /\ NoClassifyCall
    /\ NoSanitizeCall
    /\ NoPreprocessCall
    /\ NoTemplateCall


\* `if success:` (line 106) and `if result:` (line 176): a model object or
\* True is truthy, None and False are not.
\* Variant of Truthy: the loops never see a success (the return is dropped).
TruthyNever(outcome) == FALSE

Truthy(outcome) == outcome \in {"ok", "ok_weights"}

\* except Exception at lines 111-113: an exception of a loading method is
\* logged and the for loop goes on.
\* Variant of MethodCatch: the loop of load_model has no except clause.
MethodCatchNothing(outcome) == outcome

MethodCatch(outcome) == IF outcome = "raise" THEN "false" ELSE outcome

\* except Exception at lines 180-181: an exception of a loading attempt is
\* logged and the for loop goes on.
AttemptCatch(outcome) == IF outcome = "raise" THEN "false" ELSE outcome

\* except Exception at lines 121-124: whatever escapes the body of
\* load_model becomes the return value False.
OuterCatch(r) == IF r = "raised" THEN "False" ELSE r

\* os.path.exists(model_path), line 65; it raises TypeError for a value that
\* is neither a string nor a number.
PathExists(p) ==
    IF p = "nonstr" THEN "raised" ELSE IF p \in ExistingPaths THEN "True" ELSE "False"

\* One line of the attempt record the loops log: the attempt and how it ended.
Entry(name, outcome) == [name |-> name, outcome |-> outcome]

\* The same for a loading method; attempts counts the loading attempts that
\* standalone_keras made inside.
MethodEntry(name, outcome, attempts) ==
    [name |-> name, outcome |-> outcome, attempts |-> attempts]

ClearLocals(t) ==
    /\ caller' = [caller EXCEPT ![t] = "none"]
    /\ model_path' = [model_path EXCEPT ![t] = NonePath]
    /\ outer_log' = [outer_log EXCEPT ![t] = <<>>]
    /\ inner_log' = [inner_log EXCEPT ![t] = <<>>]
    /\ ret' = [ret EXCEPT ![t] = "none"]
    /\ image' = [image EXCEPT ![t] = "none"]
    /\ shape_model' = [shape_model EXCEPT ![t] = NoModel]

\* Lines 687-691, MODEL_PATH not set: nothing is loaded at start.
StartupNoEnv ==
    /\ server = "boot"
    /\ \A t \in Threads : pc[t] = "idle"
    /\ server' = "serving"
    /\ UNCHANGED <<globals, pc, caller, model_path, outer_log, inner_log, ret,
                   image, shape_model, resp, load_succeeded, calls>>

\* Lines 687-688, MODEL_PATH set: the module body calls load_model(path).
StartupLoad(p) ==
    /\ server = "boot"
    /\ \A t \in Threads : pc[t] = "idle"
    /\ pc' = [pc EXCEPT ![1] = "load_begin"]
    /\ caller' = [caller EXCEPT ![1] = "startup"]
    /\ model_path' = [model_path EXCEPT ![1] = p]
    /\ UNCHANGED <<globals, server, outer_log, inner_log, ret, image,
                   shape_model, resp, load_succeeded, calls>>

\* Line 688: default_model_loaded = load_model(...), then the server starts.
StartupAssign ==
    /\ server = "boot"
    /\ pc[1] = "load_ret"
    /\ caller[1] = "startup"
    /\ default_model_loaded' = (ret[1] = "True")
    /\ server' = IF ret[1] = "raised" THEN "exited" ELSE "serving"
    /\ pc' = [pc EXCEPT ![1] = "idle"]
    /\ ClearLocals(1)
    /\ UNCHANGED <<default_model, default_model_path, resp, load_succeeded, calls>>

LoadResponse(success, loaded, path, error) ==
    [kind |-> "load", status |-> 200, success |-> success, loaded |-> loaded,
     path |-> path, error |-> error, degraded |-> Absent,
     health |-> Absent, model_loaded |-> Absent,
     model |-> NoModel, same_model |-> TRUE]

\* load_model_route, lines 550-557: read the body and the model_path.
\* Variant of LoadRouteBegin: a body without model_path makes the route call
\* load_model() with its default argument.
LoadRouteBeginLoadsDefault(t, body) ==
    /\ server = "serving"
    /\ pc[t] = "idle"
    /\ IF body = "nojson"
       THEN /\ resp' = [resp EXCEPT ![t] =
                          LoadResponse("false", Absent, Absent, "exception")]
            /\ pc' = [pc EXCEPT ![t] = "responded"]
            /\ UNCHANGED <<caller, model_path>>
       ELSE /\ pc' = [pc EXCEPT ![t] = "load_begin"]
            /\ caller' = [caller EXCEPT ![t] = "route"]
            /\ model_path' = [model_path EXCEPT ![t] =
                                 IF body = "nopath" THEN "missing.h5" ELSE body]
            /\ UNCHANGED resp
    /\ UNCHANGED <<globals, server, outer_log, inner_log, ret, image,
                   shape_model, load_succeeded, calls>>

LoadRouteBegin(t, body) ==
    /\ server = "serving"
    /\ pc[t] = "idle"
    /\ IF body = "nojson"
       THEN /\ resp' = [resp EXCEPT ![t] =
                          LoadResponse("false", Absent, Absent, "exception")]
            /\ pc' = [pc EXCEPT ![t] = "responded"]
            /\ UNCHANGED <<caller, model_path>>
       ELSE IF body = "nopath"
       THEN /\ resp' = [resp EXCEPT ![t] =
                          LoadResponse("false", Absent, Absent, "No model path provided")]
            /\ pc' = [pc EXCEPT ![t] = "responded"]
            /\ UNCHANGED <<caller, model_path>>
       ELSE /\ pc' = [pc EXCEPT ![t] = "load_begin"]
            /\ caller' = [caller EXCEPT ![t] = "route"]
            /\ model_path' = [model_path EXCEPT ![t] = body]
            /\ UNCHANGED resp
    /\ UNCHANGED <<globals, server, outer_log, inner_log, ret, image,
                   shape_model, load_succeeded, calls>>

\* Variant of LoadModelBegin: line 51 is missing.
LoadModelBeginKeepsFlag(t) ==
    /\ pc[t] = "load_begin"
    /\ pc' = [pc EXCEPT ![t] = "load_exists"]
    /\ UNCHANGED <<globals, server, caller, model_path, outer_log, inner_log,
                   ret, image, shape_model, resp, load_succeeded, calls>>

\* load_model, line 51: the flag is reset before anything else.
\* Variant of LoadModelBegin: the held model is dropped together with the flag.
LoadModelBeginDropsModel(t) ==
    /\ pc[t] = "load_begin"
    /\ default_model_loaded' = FALSE
    /\ default_model' = NoModel
    /\ pc' = [pc EXCEPT ![t] = "load_exists"]
    /\ UNCHANGED <<default_model_path, server, caller, model_path,
                   outer_log, inner_log, ret, image, shape_model, resp,
                   load_succeeded, calls>>

LoadModelBegin(t) ==
    /\ pc[t] = "load_begin"
    /\ default_model_loaded' = FALSE
    /\ pc' = [pc EXCEPT ![t] = "load_exists"]
    /\ UNCHANGED <<default_model, default_model_path, server, caller, model_path,
                   outer_log, inner_log, ret, image, shape_model, resp,
                   load_succeeded, calls>>

\* load_model, lines 53-100: the existence check and the set-up of the list.
LoadCheckExists(t) ==
    /\ pc[t] = "load_exists"
    /\ LET e == PathExists(model_path[t]) IN
       IF e = "True"
       THEN /\ pc' = [pc EXCEPT ![t] = "method"]
            /\ UNCHANGED ret
       ELSE /\ pc' = [pc EXCEPT ![t] = "load_ret"]
            /\ ret' = [ret EXCEPT ![t] = OuterCatch(e)]
    /\ UNCHANGED <<globals, server, caller, model_path, outer_log, inner_log,
                   image, shape_model, resp, load_succeeded, calls>>


\* The position of load_model's for loop (line 102): the next method.
NextMethod(t) == Len(outer_log[t]) + 1

\* The position of load_with_standalone_keras' for loop (line 172).
NextAttempt(t) == Len(inner_log[t]) + 1

\* Variant of AfterFailedMethod: the exhausted list is reported as a success.
AfterFailedMethodReturnsTrue(t, log) ==
    IF Len(log) < Len(loading_methods)
    THEN /\ pc' = [pc EXCEPT ![t] = "method"]
         /\ UNCHANGED ret
    ELSE /\ pc' = [pc EXCEPT ![t] = "load_ret"]
         /\ ret' = [ret EXCEPT ![t] = "True"]

\* Variant of AfterFailedMethod: the exhausted list still turns the flag on.
AfterFailedMethodSetsLoaded(t, log) ==
    IF Len(log) < Len(loading_methods)
    THEN /\ pc' = [pc EXCEPT ![t] = "method"]
         /\ UNCHANGED ret
    ELSE /\ pc' = [pc EXCEPT ![t] = "set_loaded"]
         /\ UNCHANGED ret

\* load_model after a method of the list did not succeed: the loop takes the
\* next method, or falls out of the list and returns False (lines 115-119).
\* Variant of AfterFailedMethod: the loop does not end after the last method.
AfterFailedMethodNeverReturns(t, log) ==
    /\ pc' = [pc EXCEPT ![t] = "method"]
    /\ UNCHANGED ret

AfterFailedMethod(t, log) ==
    IF Len(log) < Len(loading_methods)
    THEN /\ pc' = [pc EXCEPT ![t] = "method"]
         /\ UNCHANGED ret
    ELSE /\ pc' = [pc EXCEPT ![t] = "load_ret"]
         /\ ret' = [ret EXCEPT ![t] = "False"]

\* load_with_standalone_keras, lines 128-162: the imports and the custom
\* objects; an exception here is caught at line 185 and the method returns
\* False without an attempt.
LoadStandaloneEnter(t, importsOk) ==
    /\ pc[t] = "method"
    /\ NextMethod(t) = 1
    /\ IF importsOk
       THEN /\ pc' = [pc EXCEPT ![t] = "inner"]
            /\ UNCHANGED <<outer_log, ret>>
       ELSE LET log == Append(outer_log[t], MethodEntry(loading_methods[1], "false", 0)) IN
            /\ outer_log' = [outer_log EXCEPT ![t] = log]
            /\ AfterFailedMethod(t, log)
    /\ UNCHANGED <<globals, server, caller, model_path, inner_log, image,
                   shape_model, resp, load_succeeded, calls>>

\* load_with_standalone_keras, lines 172-187: one pass of the for loop over
\* loading_attempts, with the returns of the method and what load_model does
\* with them (lines 105-107).
LoadAttempt(t, outcome) ==
    /\ pc[t] = "inner"
    /\ NextAttempt(t) \in 1..Len(loading_attempts)
    /\ LET name == loading_attempts[NextAttempt(t)]
           ilog == Append(inner_log[t], Entry(name, outcome))
           failed == Append(outer_log[t],
                            MethodEntry(loading_methods[1], "false", Len(ilog)))
       IN  /\ inner_log' = [inner_log EXCEPT ![t] =
                  IF AttemptCatch(outcome) # "raise" /\ ~Truthy(outcome)
                     /\ Len(ilog) < Len(loading_attempts)
                  THEN ilog ELSE <<>>]
           /\ IF AttemptCatch(outcome) = "raise"
              THEN \* the exception leaves the loop and is caught at line 185
                   /\ outer_log' = [outer_log EXCEPT ![t] = failed]
                   /\ AfterFailedMethod(t, failed)
                   /\ UNCHANGED default_model
              ELSE IF Truthy(outcome)
              THEN /\ default_model' = ModelOf(model_path[t], name, outcome)
                   /\ outer_log' = [outer_log EXCEPT ![t] =
                          Append(outer_log[t],
                                 MethodEntry(loading_methods[1], "ok", Len(ilog)))]
                   /\ pc' = [pc EXCEPT ![t] = "set_path"]
                   /\ UNCHANGED ret
              ELSE IF Len(ilog) < Len(loading_attempts)
              THEN UNCHANGED <<default_model, outer_log, pc, ret>>
              ELSE /\ outer_log' = [outer_log EXCEPT ![t] = failed]
                   /\ AfterFailedMethod(t, failed)
                   /\ UNCHANGED default_model
    /\ UNCHANGED <<default_model_path, default_model_loaded, server, caller,
                   model_path, image, shape_model, resp, load_succeeded, calls>>

\* load_model, lines 102-113, for tf_keras, legacy_keras and
\* direct_keras_import (lines 331-418): one pass of the for loop.
LoadMethod(t, outcome) ==
    /\ pc[t] = "method"
    /\ NextMethod(t) \in 2..Len(loading_methods)
    /\ outcome \in MethodOutcomes(loading_methods[NextMethod(t)])
    /\ LET name == loading_methods[NextMethod(t)]
           log == Append(outer_log[t], MethodEntry(name, outcome, 0))
       IN  /\ outer_log' = [outer_log EXCEPT ![t] = log]
           /\ IF MethodCatch(outcome) = "raise"
              THEN \* the exception leaves the loop and reaches line 121
                   /\ pc' = [pc EXCEPT ![t] = "load_ret"]
                   /\ ret' = [ret EXCEPT ![t] = OuterCatch("raised")]
                   /\ UNCHANGED default_model
              ELSE IF Truthy(outcome)
              THEN /\ default_model' = ModelOf(model_path[t], name, outcome)
                   /\ pc' = [pc EXCEPT ![t] = "set_path"]
                   /\ UNCHANGED ret
              ELSE /\ AfterFailedMethod(t, log)
                   /\ UNCHANGED default_model
    /\ UNCHANGED <<default_model_path, default_model_loaded, server, caller,
                   model_path, inner_log, image, shape_model, resp,
                   load_succeeded, calls>>

\* Variant of LoadSetPath: line 108 is missing.
LoadSetPathSkipped(t) ==
    /\ pc[t] = "set_path"
    /\ pc' = [pc EXCEPT ![t] = "set_loaded"]
    /\ UNCHANGED <<globals, server, caller, model_path, outer_log, inner_log,
                   ret, image, shape_model, resp, load_succeeded, calls>>

\* load_model, line 108.
LoadSetPath(t) ==
    /\ pc[t] = "set_path"
    /\ default_model_path' = model_path[t]
    /\ pc' = [pc EXCEPT ![t] = "set_loaded"]
    /\ UNCHANGED <<default_model, default_model_loaded, server, caller,
                   model_path, outer_log, inner_log, ret, image, shape_model,
                   resp, load_succeeded, calls>>

\* load_model, lines 109-110.
LoadSetLoaded(t) ==
    /\ pc[t] = "set_loaded"
    /\ default_model_loaded' = TRUE
    /\ ret' = [ret EXCEPT ![t] = "True"]
    /\ pc' = [pc EXCEPT ![t] = "load_ret"]
    /\ load_succeeded' = TRUE
    /\ UNCHANGED <<default_model, default_model_path, server, caller,
                   model_path, outer_log, inner_log, image, shape_model, resp,
                   calls>>

\* load_model_route, lines 560-575: the response for load_model's result.
LoadRouteRespond(t) ==
    /\ pc[t] = "load_ret"
    /\ caller[t] = "route"
    /\ resp' = [resp EXCEPT ![t] =
          IF ret[t] = "True"
          THEN LoadResponse("true", "true", model_path[t], Absent)
          ELSE IF ret[t] = "False"
          THEN LoadResponse("false", "false", model_path[t],
                            "Failed to load model with any available method")
          ELSE LoadResponse("false", Absent, Absent, "exception")]
    /\ pc' = [pc EXCEPT ![t] = "responded"]
    /\ ClearLocals(t)
    /\ UNCHANGED <<globals, server, load_succeeded, calls>>


\* The model-loaded test of predict_route (line 582) and of predict_image
\* (line 424).
\* Variant of ModelReady: only the model object is tested.
ModelReadyIgnoresFlag == default_model # NoModel

ModelReady == default_model_loaded /\ default_model # NoModel

\* jsonify({"error": ...}), status: lines 583, 588, 601.
PredictError(status, error) ==
    [kind |-> "predict", status |-> status, success |-> Absent,
     loaded |-> Absent, path |-> Absent, error |-> error, degraded |-> Absent,
     health |-> Absent, model_loaded |-> Absent,
     model |-> NoModel, same_model |-> TRUE]

\* The result dictionary of predict_image (lines 473-478) with the timestamp
\* of line 594: it has no degraded key.  model is the object whose predict
\* ran (line 463); same_model tells whether it is also the object whose
\* input_shape was read (line 437).
PredictResult(m, sm) ==
    [kind |-> "predict", status |-> 200, success |-> Absent,
     loaded |-> Absent, path |-> Absent, error |-> Absent, degraded |-> Absent,
     health |-> Absent, model_loaded |-> Absent,
     model |-> m, same_model |-> (m = sm)]

\* predict_route, lines 580-588: the model-loaded test and the body test.
PredictRouteBegin(t, img) ==
    /\ server = "serving"
    /\ pc[t] = "idle"
    /\ IF ~ModelReady
       THEN /\ resp' = [resp EXCEPT ![t] = PredictError(503, "Model not loaded")]
            /\ pc' = [pc EXCEPT ![t] = "responded"]
            /\ UNCHANGED image
       ELSE IF img = "noimage"
       THEN /\ resp' = [resp EXCEPT ![t] = PredictError(400, "No image provided")]
            /\ pc' = [pc EXCEPT ![t] = "responded"]
            /\ UNCHANGED image
       ELSE /\ pc' = [pc EXCEPT ![t] = "pi_check"]
            /\ image' = [image EXCEPT ![t] = img]
            /\ UNCHANGED resp
    /\ UNCHANGED <<globals, server, caller, model_path, outer_log, inner_log,
                   ret, shape_model, load_succeeded, calls>>

\* predict_image, lines 422-426, with the except of predict_route (598-601).
PredictImageCheck(t) ==
    /\ pc[t] = "pi_check"
    /\ IF ~ModelReady
       THEN /\ resp' = [resp EXCEPT ![t] = PredictError(500, "Model not loaded")]
            /\ pc' = [pc EXCEPT ![t] = "responded"]
       ELSE /\ pc' = [pc EXCEPT ![t] = "pi_shape"]
            /\ UNCHANGED resp
    /\ UNCHANGED <<globals, server, caller, model_path, outer_log, inner_log,
                   ret, image, shape_model, load_succeeded, calls>>

\* predict_image, lines 429-442: decode the image, read the input shape of
\* the model held now.
PredictReadShape(t) ==
    /\ pc[t] = "pi_shape"
    /\ IF image[t] = "bad"
       THEN /\ resp' = [resp EXCEPT ![t] = PredictError(500, "cannot decode image")]
            /\ pc' = [pc EXCEPT ![t] = "responded"]
            /\ UNCHANGED shape_model
       ELSE /\ shape_model' = [shape_model EXCEPT ![t] = default_model]
            /\ pc' = [pc EXCEPT ![t] = "pi_predict"]
            /\ UNCHANGED resp
    /\ UNCHANGED <<globals, server, caller, model_path, outer_log, inner_log,
                   ret, image, load_succeeded, calls>>

\* np.argmax(predictions[0]), line 466: the 0-based position of the first
\* largest entry.
ArgMax(v) ==
    (CHOOSE k \in 1..Len(v) :
        /\ \A m \in 1..Len(v) : v[m] <= v[k]
        /\ \A m \in 1..(k - 1) : v[m] < v[k]) - 1

\* predict_image, lines 466-478, for the vector v the model returned:
\* class_labels[predicted_class_idx] raises IndexError for an index past
\* the end of the list, and the except clauses of lines 479-486 raise it
\* again; otherwise the result dictionary is returned, keys being its keys.
Classify(v) ==
    LET predicted_class_idx == ArgMax(v) IN
    IF predicted_class_idx >= Len(class_labels)
    THEN [raised |-> "IndexError", cell_type |-> Absent, confidence |-> 0,
          all_probabilities |-> <<>>, keys |-> {}]
    ELSE [raised |-> "no",
          cell_type |-> class_labels[predicted_class_idx + 1],
          confidence |-> v[predicted_class_idx + 1],
          all_probabilities |-> v,
          keys |-> {"cell_type", "confidence", "all_probabilities",
                    "class_labels"}]

\* predict_image, lines 444-478, and predict_route, lines 593-601: the
\* forward pass of the model held now returns the vector out or raises, and
\* whatever predict_image raises becomes the 500 response of line 601.
\* Variant of PredictRun: a failed forward pass turns the loaded flag off.
PredictRunUnloads(t, inference, out) ==
    /\ pc[t] = "pi_predict"
    /\ resp' = [resp EXCEPT ![t] =
          IF inference = "ok" /\ Classify(out).raised = "no"
          THEN PredictResult(default_model, shape_model[t])
          ELSE PredictError(500, "processing error")]
    /\ pc' = [pc EXCEPT ![t] = "responded"]
    /\ ClearLocals(t)
    /\ default_model_loaded' = (default_model_loaded /\ inference = "ok")
    /\ UNCHANGED <<default_model, default_model_path, server, load_succeeded,
                   calls>>

PredictRun(t, inference, out) ==
    /\ pc[t] = "pi_predict"
    /\ resp' = [resp EXCEPT ![t] =
          IF inference = "ok" /\ Classify(out).raised = "no"
          THEN PredictResult(default_model, shape_model[t])
          ELSE PredictError(500, "processing error")]
    /\ pc' = [pc EXCEPT ![t] = "responded"]
    /\ ClearLocals(t)
    /\ UNCHANGED <<globals, server, load_succeeded, calls>>

\* jsonify of lines 493 and 496: "status" is health, the HTTP status is status.
HealthResponse(health, model_loaded, status) ==
    [kind |-> "health", status |-> status, success |-> Absent,
     loaded |-> Absent, path |-> Absent, error |-> Absent, degraded |-> Absent,
     health |-> health, model_loaded |-> model_loaded,
     model |-> NoModel, same_model |-> TRUE]

\* health_check, lines 490-496.
\* Variant of HealthCheck: only the model object is tested.
HealthCheckIgnoresFlag(t) ==
    /\ server = "serving"
    /\ pc[t] = "idle"
    /\ resp' = [resp EXCEPT ![t] =
          IF default_model # NoModel
          THEN HealthResponse("ok", "true", 200)
          ELSE HealthResponse("degraded", "false", 503)]
    /\ pc' = [pc EXCEPT ![t] = "responded"]
    /\ UNCHANGED <<globals, server, caller, model_path, outer_log, inner_log,
                   ret, image, shape_model, load_succeeded, calls>>

HealthCheck(t) ==
    /\ server = "serving"
    /\ pc[t] = "idle"
    /\ resp' = [resp EXCEPT ![t] =
          IF default_model_loaded /\ default_model # NoModel
          THEN HealthResponse("ok", "true", 200)
          ELSE HealthResponse("degraded", "false", 503)]
    /\ pc' = [pc EXCEPT ![t] = "responded"]
    /\ UNCHANGED <<globals, server, caller, model_path, outer_log, inner_log,
                   ret, image, shape_model, load_succeeded, calls>>

\* The response is sent and the worker is free for the next request.
Return(t) ==
    /\ pc[t] = "responded"
    /\ pc' = [pc EXCEPT ![t] = "idle"]
    /\ resp' = [resp EXCEPT ![t] = NoResp]
    /\ ClearLocals(t)
    /\ UNCHANGED <<globals, server, load_succeeded, calls>>

Next ==
    \/ StartupNoEnv
    \/ \E p \in Paths \ {"nonstr"} : StartupLoad(p)
    \/ StartupAssign
    \/ \E t \in Threads, body \in {"nojson", "nopath"} \cup Paths : LoadRouteBegin(t, body)
    \/ \E t \in Threads : LoadModelBegin(t)
    \/ \E t \in Threads : LoadCheckExists(t)
    \/ \E t \in Threads, importsOk \in BOOLEAN : LoadStandaloneEnter(t, importsOk)
    \/ \E t \in Threads, outcome \in InnerOutcomes : LoadAttempt(t, outcome)
    \/ \E t \in Threads, outcome \in {"ok", "ok_weights", "false", "raise"} : LoadMethod(t, outcome)
    \/ \E t \in Threads : LoadSetPath(t)
    \/ \E t \in Threads : LoadSetLoaded(t)
    \/ \E t \in Threads : LoadRouteRespond(t)
    \/ \E t \in Threads, img \in Images : PredictRouteBegin(t, img)
    \/ \E t \in Threads : PredictImageCheck(t)
    \/ \E t \in Threads : PredictReadShape(t)
    \/ \E t \in Threads, inference \in {"ok", "raise"}, out \in WorkerOutputs :
          PredictRun(t, inference, out)
    \/ \E t \in Threads : HealthCheck(t)
    \/ \E t \in Threads : Return(t)

Spec == Init /\ [][Next]_vars

\* What the loop of load_model itself writes to the log about a method it
\* called: the success line 107, the exception at line 112, and nothing at
\* all for a method that returned False.
LoopLogs(outcome) ==
    IF outcome \in {"ok", "ok_weights"} THEN "success"
    ELSE IF outcome = "raise" THEN "error with cause"
    ELSE "nothing"

\* Worker t's load_model call can take its next step: every statement of
\* load_model ends, and so does every loading method and attempt.
LoadProgress(t) ==
    \/ LoadModelBegin(t)
    \/ LoadCheckExists(t)
    \/ \E importsOk \in BOOLEAN : LoadStandaloneEnter(t, importsOk)
    \/ \E outcome \in InnerOutcomes : LoadAttempt(t, outcome)
    \/ \E outcome \in {"ok", "ok_weights", "false", "raise"} : LoadMethod(t, outcome)
    \/ LoadSetPath(t)
    \/ LoadSetLoaded(t)

\* The requests of the server with one loadable file instead of two; which
\* of the files a call is for makes no difference to whether the call ends.
FairPaths == Paths \ {"b.h5"}

NextFair ==
    \/ StartupNoEnv
    \/ \E p \in FairPaths \ {"nonstr"} : StartupLoad(p)
    \/ StartupAssign
    \/ \E t \in Threads, body \in {"nojson", "nopath"} \cup FairPaths :
          LoadRouteBegin(t, body)
    \/ \E t \in Threads : LoadModelBegin(t)
    \/ \E t \in Threads : LoadCheckExists(t)
    \/ \E t \in Threads, importsOk \in BOOLEAN : LoadStandaloneEnter(t, importsOk)
    \/ \E t \in Threads, outcome \in InnerOutcomes : LoadAttempt(t, outcome)
    \/ \E t \in Threads, outcome \in {"ok", "ok_weights", "false", "raise"} :
          LoadMethod(t, outcome)
    \/ \E t \in Threads : LoadSetPath(t)
    \/ \E t \in Threads : LoadSetLoaded(t)
    \/ \E t \in Threads : LoadRouteRespond(t)
    \/ \E t \in Threads, img \in Images : PredictRouteBegin(t, img)
    \/ \E t \in Threads : PredictImageCheck(t)
    \/ \E t \in Threads : PredictReadShape(t)
    \/ \E t \in Threads, inference \in {"ok", "raise"}, out \in WorkerOutputs :
          PredictRun(t, inference, out)
    \/ \E t \in Threads : HealthCheck(t)
    \/ \E t \in Threads : Return(t)

\* The server with workers that go on running their load_model calls.
SpecFair ==
    /\ Init
    /\ [][NextFair]_vars
    /\ \A t \in Threads : WF_vars(LoadProgress(t))


(***************************************************************************)
(* The post-processing of predict_image, followed on its own for one       *)
(* output vector                                                           *)
(***************************************************************************)

server_vars ==
    <<globals, server, pc, caller, model_path, outer_log, inner_log, ret,
      image, shape_model, resp, load_succeeded>>

InitClassify ==
    /\ ServerInit
    /\ predictions \in OutputVectors
    /\ result = NoResult
    /\ NoSanitizeCall
    /\ NoPreprocessCall
    /\ NoTemplateCall

\* Lines 466-486 run for the vector the model returned.
ClassifyCall ==
    /\ result = NoResult
    /\ result' = Classify(predictions)
    /\ UNCHANGED <<server_vars, predictions, sanitize_vars, preprocess_vars,
                   template_vars>>

NextClassify == ClassifyCall

SpecClassify == InitClassify /\ [][NextClassify]_vars


(***************************************************************************)
(* clean_config_advanced, followed on its own for one description          *)
(***************************************************************************)

\* d without the keys ks.
Without(d, ks) == [k \in DOMAIN d \ ks |-> d[k]]

\* problematic_keys, lines 206-209.
\* Variant of problematic_keys: dtype is not in the list.
problematic_keys_without_dtype ==
    {"batch_shape", "dtype_policy", "mixed_precision_policy", "policy",
     "_dtype_policy"}

problematic_keys ==
    {"batch_shape", "dtype_policy", "mixed_precision_policy", "policy",
     "_dtype_policy", "dtype"}

\* Lines 216-221: a batch_input_shape that is a list of more than one
\* dimension is stored without its first dimension as input_shape, and
\* batch_input_shape is deleted whatever it held.
\* Variant of RewriteShape: the shortened shape is stored back under
\* batch_input_shape and the key is kept.
RewriteShapeInPlace(d) ==
    IF "batch_input_shape" \in DOMAIN d
    THEN LET batch_shape == d["batch_input_shape"] IN
         IF batch_shape.tag = "list" /\ Len(batch_shape.v) > 1
         THEN ("batch_input_shape" :> List(Tail(batch_shape.v))) @@ d
         ELSE Without(d, {"batch_input_shape"})
    ELSE d

RewriteShape(d) ==
    IF "batch_input_shape" \in DOMAIN d
    THEN LET batch_shape == d["batch_input_shape"]
             with_input_shape ==
                 IF batch_shape.tag = "list" /\ Len(batch_shape.v) > 1
                 THEN ("input_shape" :> List(Tail(batch_shape.v))) @@ d
                 ELSE d
         IN  Without(with_input_shape, {"batch_input_shape"})
    ELSE d

\* clean_config_advanced, lines 204-233; the value is the object as the
\* call leaves it.
RECURSIVE clean_config_advanced(_)
clean_config_advanced(obj) ==
    IF obj.tag = "dict"
    THEN LET d == RewriteShape(Without(obj.v, problematic_keys)) IN
         Dict([k \in DOMAIN d |->
                  IF d[k].tag \in {"dict", "list"}
                  THEN clean_config_advanced(d[k]) ELSE d[k]])
    ELSE IF obj.tag = "list"
    THEN List([i \in 1..Len(obj.v) |->
                  IF obj.v[i].tag \in {"dict", "list"}
                  THEN clean_config_advanced(obj.v[i]) ELSE obj.v[i]])
    ELSE obj

InitSanitize ==
    /\ ServerInit
    /\ NoClassifyCall
    /\ config_in \in Trees
    /\ config = config_in
    /\ cleanings = 0
    /\ NoPreprocessCall
    /\ NoTemplateCall

\* Line 235: clean_config_advanced(config), once more.
CleanConfig ==
    /\ cleanings < MaxCleanings
    /\ config' = clean_config_advanced(config)
    /\ cleanings' = cleanings + 1
    /\ UNCHANGED <<server_vars, classify_vars, config_in, preprocess_vars,
                   template_vars>>

NextSanitize == CleanConfig

SpecSanitize == InitSanitize /\ [][NextSanitize]_vars


(***************************************************************************)
(* The preprocessing of predict_image, followed on its own for one image   *)
(***************************************************************************)

\* image.resize(size), line 442: PIL scales the whole image, the box
\* (0, 0, width, height), to size; box is the part of the source image the
\* resized image shows, as (left, upper, right, lower).
Resize(im_size, size) ==
    [size |-> size, box |-> <<0, 0, im_size[1], im_size[2]>>]

\* predict_image, lines 437-458: the two sides of the model input are read
\* and the image is resized to them; the conversions of lines 445-458
\* change neither the size nor what the image shows.
Preprocess(im_size, shape) ==
    LET expected_shape == SubSeq(shape, 2, 3) IN
    Resize(im_size, expected_shape)

InitPreprocess ==
    /\ ServerInit
    /\ NoClassifyCall
    /\ NoSanitizeCall
    /\ image_size \in (1..MaxSide) \X (1..MaxSide)
    /\ input_shape \in {<<"None", n, n, 3>> : n \in 1..MaxInputSide}
    /\ img_batch = NoBatch
    /\ NoTemplateCall

\* Lines 437-458 run for the decoded image.
PreprocessCall ==
    /\ img_batch = NoBatch
    /\ img_batch' = Preprocess(image_size, input_shape)
    /\ UNCHANGED <<server_vars, classify_vars, sanitize_vars, image_size,
                   input_shape, template_vars>>

NextPreprocess == PreprocessCall

SpecPreprocess == InitPreprocess /\ [][NextPreprocess]_vars


(***************************************************************************)
(* load_weights_only_approach with create_flexible_architecture, followed  *)
(* on its own for one artifact                                             *)
(***************************************************************************)

InitTemplate ==
    /\ ServerInit
    /\ NoClassifyCall
    /\ NoSanitizeCall
    /\ NoPreprocessCall
    /\ builds_ok \in [Candidates -> BOOLEAN]
    /\ binds_ok \in [Candidates -> BOOLEAN]
    /\ wo_pc = "inspect"
    /\ shapes_tried = <<>>
    /\ shapes_bound = <<>>
    /\ wo_ret = 0

others_of_template == <<server_vars, classify_vars, sanitize_vars, preprocess_vars>>

\* load_weights_only_approach, lines 263-271 and 284-287: the file is opened
\* and its layer names are read; an exception here ends the call with None.
InspectFile(ok) ==
    /\ wo_pc = "inspect"
    /\ wo_pc' = IF ok THEN "shapes" ELSE "done"
    /\ UNCHANGED <<others_of_template, builds_ok, binds_ok, shapes_tried,
                   shapes_bound, wo_ret>>

\* create_flexible_architecture, lines 301-325: one pass of the for loop.
\* The first candidate whose model can be constructed is returned at line
\* 318; when the list is used up None is returned, and line 276 makes
\* load_weights_only_approach return None.
TryInputShape ==
    /\ wo_pc = "shapes"
    /\ Len(shapes_tried) < Len(common_input_shapes)
    /\ LET i == Len(shapes_tried) + 1 IN
       /\ shapes_tried' = Append(shapes_tried, i)
       /\ wo_pc' = IF builds_ok[i] THEN "bind"
                   ELSE IF i < Len(common_input_shapes) THEN "shapes"
                   ELSE "done"
    /\ UNCHANGED <<others_of_template, builds_ok, binds_ok, shapes_bound, wo_ret>>

\* load_weights_only_approach, lines 276-287: load_weights is called once,
\* on the model create_flexible_architecture returned; the model is
\* returned when the call does not raise, None when it does.
BindWeights ==
    /\ wo_pc = "bind"
    /\ LET i == shapes_tried[Len(shapes_tried)] IN
       /\ shapes_bound' = Append(shapes_bound, i)
       /\ wo_ret' = IF binds_ok[i] THEN i ELSE 0
    /\ wo_pc' = "done"
    /\ UNCHANGED <<others_of_template, builds_ok, binds_ok, shapes_tried>>

NextTemplate ==
    \/ \E ok \in BOOLEAN : InspectFile(ok)
    \/ TryInputShape
    \/ BindWeights

SpecTemplate == InitTemplate /\ [][NextTemplate]_vars


(***************************************************************************)
(* The strategy chains                                                     *)
(***************************************************************************)

Failed(e) == e.outcome \notin {"ok", "ok_weights"}

\* log follows order from its first element on, and only its last entry
\* may be a success.
ChainOrdered(log, order) ==
    /\ Len(log) <= Len(order)
    /\ \A k \in 1..Len(log) :
          /\ log[k].name = order[k]
          /\ (k < Len(log) => Failed(log[k]))

InChain(t) == pc[t] \in {"method", "inner"}

\* C1: within one load call the methods of load_model and the attempts of
\* load_with_standalone_keras are tried in list order, each one only after
\* all the ones ahead of it were tried and failed, and a call that is still
\* trying strategies has had no success yet.
C1_StrategyOrder ==
    \A t \in Threads :
        /\ ChainOrdered(outer_log[t], loading_methods)
        /\ ChainOrdered(inner_log[t], loading_attempts)
        /\ (InChain(t) =>
               /\ \A k \in 1..Len(outer_log[t]) : Failed(outer_log[t][k])
               /\ \A k \in 1..Len(inner_log[t]) : Failed(inner_log[t][k]))
        /\ (inner_log[t] # <<>> => pc[t] = "inner" /\ outer_log[t] = <<>>)

\* A call succeeded with its third method after the two ahead had failed.
C1_Witness ==
    \E t \in Threads :
        /\ pc[t] = "set_path"
        /\ Len(outer_log[t]) = 3
        /\ ~Failed(outer_log[t][3])

\* C2: an exception or failure result of one strategy never ends the load
\* call: load_model never raises, a call that returns False for a file that
\* exists has tried every method of the list, and standalone_keras, once its
\* imports worked, fails only after trying every attempt of its list.
C2_FailureAdvancesChain ==
    \A t \in Threads :
        /\ ret[t] # "raised"
        /\ (pc[t] = "load_ret" /\ ret[t] = "False"
              /\ model_path[t] \in ExistingPaths
              => Len(outer_log[t]) = Len(loading_methods))
        /\ \A k \in 1..Len(outer_log[t]) :
              (outer_log[t][k].name = loading_methods[1] /\ Failed(outer_log[t][k]))
                 => outer_log[t][k].attempts \in {0, Len(loading_attempts)}

\* A method raised and the call went on to a later method.
C2_Witness ==
    \E t \in Threads :
        /\ Len(outer_log[t]) >= 3
        /\ outer_log[t][2].outcome = "raise"

\* The model object the successful strategy of worker t's call returned.
Produced(t) ==
    LET e == outer_log[t][Len(outer_log[t])] IN
    IF e.name = loading_methods[1]
    THEN ModelOf(model_path[t], loading_attempts[e.attempts], "ok")
    ELSE ModelOf(model_path[t], e.name, e.outcome)

Succeeded(t) ==
    /\ outer_log[t] # <<>>
    /\ ~Failed(outer_log[t][Len(outer_log[t])])

\* C3: when a strategy succeeds, the call stops trying, holds the model
\* that strategy produced, records the requested path, sets the flag and
\* returns True, none of its later steps replaces the model, and the route
\* answers success=true, loaded=true with the requested path.
C3_FirstSuccessWins ==
    /\ [](\A t \in Threads :
             Succeeded(t) =>
                /\ pc[t] \in {"set_path", "set_loaded", "load_ret"}
                /\ (pc[t] = "load_ret" => ret[t] = "True"))
    /\ [][\A t \in Threads :
             /\ (InChain(t) /\ pc'[t] = "set_path")
                   => Succeeded(t)' /\ default_model' = Produced(t)'
             /\ (pc[t] = "set_path" /\ pc'[t] # "set_path")
                   => /\ pc'[t] = "set_loaded"
                      /\ default_model_path' = model_path[t]
                      /\ default_model' = default_model
             /\ (pc[t] = "set_loaded" /\ pc'[t] # "set_loaded")
                   => /\ pc'[t] = "load_ret" /\ ret'[t] = "True"
                      /\ default_model_loaded'
                      /\ UNCHANGED <<default_model, default_model_path>>
             /\ (pc[t] = "load_ret" /\ ret[t] = "True" /\ caller[t] = "route"
                   /\ pc'[t] # "load_ret")
                   => /\ resp'[t] = LoadResponse("true", "true", model_path[t], Absent)
                      /\ UNCHANGED globals
         ]_vars

\* A load request was answered with success for the path it named while the
\* model held is one loaded from that path.
C3_Witness ==
    \E t \in Threads :
        /\ pc[t] = "responded"
        /\ resp[t].kind = "load"
        /\ resp[t].success = "true"
        /\ resp[t].path = default_model_path
        /\ default_model.path = resp[t].path
        /\ default_model_loaded


(***************************************************************************)
(* Exhaustion of the chain, missing files, reloads                         *)
(***************************************************************************)

\* load_model has gone through its whole list without a success.
Exhausted(t) ==
    /\ pc[t] = "load_ret"
    /\ Len(outer_log[t]) = Len(loading_methods)
    /\ \A k \in 1..Len(outer_log[t]) : Failed(outer_log[t][k])

FailedToLoad == "Failed to load model with any available method"

\* C4 as the specification states it: when every strategy fails for a file
\* that exists, the load request answers success=true, loaded=true with a
\* degraded marker.
C4_ExhaustedReportsSuccess ==
    [][\A t \in Threads :
          (Exhausted(t) /\ caller[t] = "route" /\ pc'[t] = "responded")
             => /\ resp'[t].success = "true"
                /\ resp'[t].loaded = "true"
                /\ resp'[t].degraded = "true"
      ]_vars

\* C4 amended: when every strategy fails for a file that exists, no
\* fallback model is installed (a failing strategy and the return change
\* neither the held model nor the recorded path nor the flag), load_model
\* returns False and the route answers success=false, loaded=false with the
\* error "Failed to load model with any available method".
C4_ExhaustedReportsFailure ==
    /\ [](\A t \in Threads : Exhausted(t) => ret[t] = "False")
    /\ [][\A t \in Threads :
             /\ (InChain(t) /\ ~Succeeded(t)'
                   /\ <<pc[t], outer_log[t], inner_log[t]>>
                         # <<pc'[t], outer_log'[t], inner_log'[t]>>)
                   => UNCHANGED globals
             /\ (Exhausted(t) /\ caller[t] = "route" /\ pc'[t] # "load_ret")
                   => /\ resp'[t] = LoadResponse("false", "false",
                                                 model_path[t], FailedToLoad)
                      /\ UNCHANGED globals
         ]_vars

\* A load request for a file that exists was answered with the failure.
C4_Witness ==
    \E t \in Threads :
        /\ pc[t] = "responded"
        /\ resp[t].kind = "load"
        /\ resp[t].path \in ExistingPaths
        /\ resp[t].success = "false"
        /\ resp[t].error = FailedToLoad

C6_MissingFileError ==
    \A t \in Threads :
        (resp[t].kind = "load" /\ resp[t].path = "missing.h5")
           => /\ resp[t].success = "false"
              /\ resp[t].loaded = "false"
              /\ resp[t].error = "Model file not found"

\* The path of worker t's load call is the recorded path of a loaded model.
AlreadyLoaded(t) == ModelReady /\ default_model_path = model_path[t]

\* C7 as the specification states it: load_model for a path that is already
\* loaded changes nothing, runs no strategy and returns the cached success.
C7_LoadOfLoadedPathIsNoOp ==
    [][\A t \in Threads :
          (pc[t] = "load_begin" /\ pc'[t] # "load_begin" /\ AlreadyLoaded(t))
             => /\ UNCHANGED globals
                /\ pc'[t] = "load_ret"
                /\ ret'[t] = "True"
      ]_vars

\* C7 amended: a load request for a path that is already loaded reloads it:
\* the call first turns the loaded flag off, keeping the held model and the
\* recorded path, then goes on to the existence check and the strategy
\* chain, and it returns True only after a strategy of this call succeeded.
C7_LoadOfLoadedPathReloads ==
    /\ [](\A t \in Threads :
             (pc[t] = "load_ret" /\ ret[t] = "True") => Succeeded(t))
    /\ [][\A t \in Threads :
             (pc[t] = "load_begin" /\ pc'[t] # "load_begin" /\ AlreadyLoaded(t))
                => /\ ~default_model_loaded'
                   /\ UNCHANGED <<default_model, default_model_path>>
                   /\ pc'[t] = "load_exists"
         ]_vars

\* A call runs the strategies again for the recorded path of the held model,
\* with the flag turned off.
C7_Witness ==
    \E t \in Threads :
        /\ InChain(t)
        /\ default_model_path = model_path[t]
        /\ default_model.path = model_path[t]
        /\ ~default_model_loaded

\* C8: as long as no load_model call has succeeded, no predict request gets
\* past the model-loaded test of predict_route: none is inside
\* predict_image, and every predict response is "Model not loaded" with
\* status 503.
C8_PredictBeforeLoad ==
    ~load_succeeded =>
        /\ ~default_model_loaded
        /\ \A t \in Threads :
              /\ pc[t] \notin {"pi_check", "pi_shape", "pi_predict"}
              /\ (resp[t].kind = "predict"
                    => resp[t] = PredictError(503, "Model not loaded"))

\* A predict request was refused although a strategy has already stored a
\* model object, the load call not having returned yet.
C8_Witness ==
    \E t \in Threads :
        /\ ~load_succeeded
        /\ default_model # NoModel
        /\ resp[t] = PredictError(503, "Model not loaded")

\* C9: two load calls for the same path never run the strategy chain at the
\* same time.
C9_OneChainPerPath ==
    \A t, u \in Threads :
        (t # u /\ model_path[t] = model_path[u] /\ model_path[t] \in ExistingPaths)
           => ~(InChain(t) /\ InChain(u))

\* C10: once a model is loaded it stays available to predict requests: the
\* loaded flag stays on and the held model stays the same.
C10_LoadedModelStays ==
    [][ModelReady => (ModelReady' /\ default_model' = default_model)]_vars

(***************************************************************************)
(* Predict requests                                                        *)
(***************************************************************************)

\* Worker t takes a step of predict_route or of predict_image.
PredictStep(t) ==
    \/ pc[t] \in {"pi_check", "pi_shape", "pi_predict"} /\ pc'[t] # pc[t]
    \/ pc[t] = "idle" /\ (pc'[t] = "pi_check" \/ resp'[t].kind = "predict")

\* C11: no step of a predict request, whether the request ends in a result
\* or in an error, changes the loaded flag, the held model or the recorded
\* path.
C11_PredictKeepsLoadState ==
    [][\A t \in Threads : PredictStep(t) => UNCHANGED globals]_vars

\* One predict request was answered with a result and another with the
\* error of a failed forward pass, the model still being loaded.
C11_Witness ==
    \E t, u \in Threads :
        /\ ModelReady
        /\ resp[t].kind = "predict" /\ resp[t].status = 200
        /\ resp[u] = PredictError(500, "processing error")

\* The post-processing call has been made.
Classified == result.raised # "not called"

RealLabel(l) == \E k \in 1..Len(class_labels) : class_labels[k] = l

\* The result dictionary has a key beside the four of lines 473-478, which
\* is where an anomaly flag would be.
Flagged(r) ==
    r.keys \ {"cell_type", "confidence", "all_probabilities", "class_labels"} # {}

\* C12: when the position of the largest output is not smaller than the
\* number of class labels, predict_image returns a result with a placeholder
\* label and an anomaly flag instead of raising; and every result returned
\* with a real label was computed from a position inside the label list.
C12_PlaceholderForIndexPastLabels ==
    Classified =>
        /\ (ArgMax(predictions) >= Len(class_labels)
               => /\ result.raised = "no"
                  /\ ~RealLabel(result.cell_type)
                  /\ Flagged(result))
        /\ (result.raised = "no" /\ RealLabel(result.cell_type)
               => ArgMax(predictions) < Len(class_labels))

\* C13: when the output vector is shorter or longer than the list of class
\* labels, predict_image returns a result with a placeholder label and an
\* anomaly flag and raises nothing; so every result returned without the
\* flag has exactly as many probabilities as there are class labels.
C13_PlaceholderForLengthMismatch ==
    Classified =>
        /\ (Len(predictions) # Len(class_labels)
               => /\ result.raised = "no"
                  /\ ~RealLabel(result.cell_type)
                  /\ Flagged(result))
        /\ (result.raised = "no" /\ ~Flagged(result)
               => Len(result.all_probabilities) = Len(class_labels))

\* What went wrong in a failed predict request, by the error it reports.
Cause(error) ==
    IF error = "Model not loaded" THEN "no model"
    ELSE IF error \in {"No image provided", "cannot decode image"} THEN "bad input"
    ELSE "processing"

PredictFailed(r) == r.kind = "predict" /\ r.model = NoModel

\* C14: every failed predict request is answered with an error body and a
\* status other than 200, and the status tells the three causes apart: no
\* model loaded, bad input (no image field, a string that does not decode
\* to an image), processing error of the forward pass.  Two failed
\* responses have the same status exactly when they have the same cause.
C14_StatusPerCause ==
    /\ \A t \in Threads :
          PredictFailed(resp[t])
             => resp[t].status # 200 /\ resp[t].error # Absent
    /\ \A t, u \in Threads :
          (PredictFailed(resp[t]) /\ PredictFailed(resp[u]))
             => ((Cause(resp[t].error) = Cause(resp[u].error))
                    <=> (resp[t].status = resp[u].status))

(***************************************************************************)
(* Health                                                                  *)
(***************************************************************************)

\* C19: a health request is answered "ok" with model_loaded true and status
\* 200 exactly in the states in which the model-loaded test of a predict
\* request passes, and "degraded" with model_loaded false and status 503 in
\* all other states.
C19_HealthTellsPredictReady ==
    [][\A t \in Threads :
          (resp[t] = NoResp /\ resp'[t].kind = "health")
             => resp'[t] = IF ModelReady
                           THEN HealthResponse("ok", "true", 200)
                           ELSE HealthResponse("degraded", "false", 503)
      ]_vars

\* One health request was answered "ok" and, a reload having turned the
\* flag off while the model object is still held, another one "degraded".
C19_Witness ==
    \E t, u \in Threads :
        /\ resp[t] = HealthResponse("ok", "true", 200)
        /\ resp[u] = HealthResponse("degraded", "false", 503)
        /\ default_model # NoModel

(***************************************************************************)
(* Plain load and sanitized reconstruction                                 *)
(***************************************************************************)

\* The loading attempts that apply clean_config_advanced to the embedded
\* description before they reconstruct the model: load_h5_with_reconstruction
\* (line 166) always does (line 235), the other three never do.
Sanitizes(name) == name = "h5_reconstruction"

\* C20 as the specification states it: the reconstruction from the sanitized
\* description is attempted only after an attempt that takes the description
\* as it is was made and failed.
C20_PlainBeforeSanitized ==
    \A t \in Threads :
        \A k \in 1..Len(inner_log[t]) :
            Sanitizes(inner_log[t][k].name)
               => \E j \in 1..(k - 1) :
                     ~Sanitizes(inner_log[t][j].name) /\ Failed(inner_log[t][j])

\* C20 amended: the order is the other way round.  The first attempt of
\* load_with_standalone_keras is the reconstruction from the sanitized
\* description, and an attempt that takes the description as it is is made
\* only after the sanitized reconstruction was attempted and failed.
C20_SanitizedBeforePlain ==
    \A t \in Threads :
        /\ (inner_log[t] # <<>> => Sanitizes(inner_log[t][1].name))
        /\ \A k \in 1..Len(inner_log[t]) :
              ~Sanitizes(inner_log[t][k].name)
                 => \E j \in 1..(k - 1) :
                       Sanitizes(inner_log[t][j].name) /\ Failed(inner_log[t][j])

\* The plain keras load was attempted and failed after the sanitized
\* reconstruction had failed.
C20_Witness ==
    \E t \in Threads :
        /\ Len(inner_log[t]) >= 2
        /\ Sanitizes(inner_log[t][1].name)
        /\ ~Sanitizes(inner_log[t][2].name)

(***************************************************************************)
(* The sanitizer                                                           *)
(***************************************************************************)

\* Some dictionary of the tree obj, at whatever depth, has a key of ks.
RECURSIVE HasKey(_, _)
HasKey(obj, ks) ==
    IF obj.tag = "dict"
    THEN \/ DOMAIN obj.v \cap ks # {}
         \/ \E k \in DOMAIN obj.v : HasKey(obj.v[k], ks)
    ELSE IF obj.tag = "list"
    THEN \E i \in 1..Len(obj.v) : HasKey(obj.v[i], ks)
    ELSE FALSE

Denylist ==
    {"batch_shape", "batch_input_shape", "dtype_policy",
     "mixed_precision_policy", "policy", "_dtype_policy", "dtype"}

\* C15: the tree clean_config_advanced leaves has none of the keys
\* batch_shape, batch_input_shape, dtype_policy, mixed_precision_policy,
\* policy, _dtype_policy, dtype in any of its dictionaries, at any depth.
C15_NoDenylistedKeyLeft ==
    cleanings >= 1 => ~HasKey(config, Denylist)

\* A model description with a dtype key at the top and a batch_input_shape
\* two dictionaries and a list further down has been sanitized.
C15_Witness ==
    /\ cleanings = 1
    /\ config_in.tag = "dict"
    /\ "dtype" \in DOMAIN config_in.v
    /\ "config" \in DOMAIN config_in.v
    /\ "layers" \in DOMAIN config_in.v["config"].v
    /\ HasKey(config_in.v["config"], {"batch_input_shape"})

\* C16: sanitizing a tree twice leaves the same tree as sanitizing it once.
C16_SanitizerIdempotent ==
    cleanings >= 2 => config = clean_config_advanced(config_in)

\* A tree that the first call changed has been sanitized twice.
C16_Witness ==
    /\ cleanings = 2
    /\ config # config_in
    /\ HasKey(config, {"input_shape"})

\* x is a list of a batch dimension and at least one more dimension.
HoldsShape(x) == x.tag = "list" /\ Len(x.v) > 1

\* Every dictionary of raw that has a batch_shape or a batch_input_shape
\* holding a shape is, in clean, a dictionary whose input_shape is that
\* shape without its first dimension.
RECURSIVE ShapesRewritten(_, _)
ShapesRewritten(raw, clean) ==
    IF raw.tag = "dict"
    THEN /\ clean.tag = "dict"
         /\ \A k \in {"batch_shape", "batch_input_shape"} \cap DOMAIN raw.v :
               HoldsShape(raw.v[k])
                  => /\ "input_shape" \in DOMAIN clean.v
                     /\ clean.v["input_shape"].tag = "list"
                     /\ clean.v["input_shape"].v = Tail(raw.v[k].v)
         /\ \A k \in (DOMAIN raw.v \cap DOMAIN clean.v) \ {"input_shape"} :
               ShapesRewritten(raw.v[k], clean.v[k])
    ELSE IF raw.tag = "list"
    THEN /\ clean.tag = "list"
         /\ Len(clean.v) = Len(raw.v)
         /\ \A i \in 1..Len(raw.v) : ShapesRewritten(raw.v[i], clean.v[i])
    ELSE TRUE

\* C17: whenever a dictionary carries batch_shape or batch_input_shape
\* holding a shape, the sanitized dictionary carries that shape without the
\* batch dimension as input_shape: the field is rewritten, never just
\* dropped.
C17_ShapeFieldRewritten ==
    cleanings >= 1 => ShapesRewritten(config_in, config)

(***************************************************************************)
(* The preprocessor                                                        *)
(***************************************************************************)

Min(a, b) == IF a <= b THEN a ELSE b

\* The centered square of side min(w, h) of an image of w by h pixels.
CenterSquare(w, h) ==
    LET side == Min(w, h)
        left == (w - side) \div 2
        upper == (h - side) \div 2
    IN  <<left, upper, left + side, upper + side>>

\* C18: the preprocessor never stretches an image that is not square: what
\* the model is given is the centered square of side min(W, H) of the
\* image, resized to the N x N input of the model.
C18_CenterCropThenResize ==
    img_batch # NoBatch =>
        /\ img_batch.size = <<input_shape[2], input_shape[3]>>
        /\ img_batch.box = CenterSquare(image_size[1], image_size[2])

(***************************************************************************)
(* Template reconstruction                                                 *)
(***************************************************************************)

\* The candidates whose model can be constructed and takes the weights.
Bindable == {i \in Candidates : builds_ok[i] /\ binds_ok[i]}

\* C21: the template reconstruction goes through the candidate input shapes
\* in order and attempts the weight binding for each one: it returns the
\* first candidate whose binding does not raise, after having attempted the
\* binding for every constructible candidate ahead of it, and returns None
\* only when no candidate binds.
C21_FirstBindableCandidate ==
    (wo_pc = "done" /\ shapes_tried # <<>>) =>
        IF Bindable = {}
        THEN wo_ret = 0
        ELSE /\ wo_ret \in Bindable
             /\ \A i \in Bindable : wo_ret <= i
             /\ \A i \in 1..wo_ret :
                   builds_ok[i] => \E k \in 1..Len(shapes_bound) : shapes_bound[k] = i

(***************************************************************************)
(* Loads and predicts of several workers                                   *)
(***************************************************************************)

\* C22: whenever the loaded flag is on, the held model is not None and is a
\* model loaded from the recorded path.
C22_ModelMatchesPath ==
    default_model_loaded =>
        /\ default_model # NoModel
        /\ default_model.path = default_model_path

\* C23: a predict request is never answered "Model not loaded" with status
\* 500, and a prediction is computed with one model: the model whose
\* forward pass ran is the model whose input shape was read.
C23_PredictSeesOneLoadState ==
    \A t \in Threads :
        /\ resp[t] # PredictError(500, "Model not loaded")
        /\ (resp[t].kind = "predict" /\ resp[t].status = 200
              => resp[t].same_model)

\* Worker t takes a step of its load_model call.
LoadStep(t) ==
    /\ pc[t] \in {"load_begin", "load_exists", "method", "inner", "set_path",
                  "set_loaded", "load_ret"}
    /\ <<pc[t], outer_log[t], inner_log[t]>>
          # <<pc'[t], outer_log'[t], inner_log'[t]>>

\* C24: a load_model call that returns False has had no successful
\* strategy, and a step of a load_model call changes the held model only
\* when it is the success of a strategy, which assigns the model that
\* strategy produced, and changes the recorded path only at line 108,
\* after a strategy of the call succeeded; so the steps of a call that
\* returns False leave the held model and the recorded path as they were.
C24_FailedLoadKeepsModelAndPath ==
    /\ [](\A t \in Threads :
             (pc[t] = "load_ret" /\ ret[t] = "False") => ~Succeeded(t))
    /\ [][\A t \in Threads :
             LoadStep(t) =>
                /\ (default_model' # default_model
                      => /\ InChain(t) /\ pc'[t] = "set_path" /\ Succeeded(t)'
                         /\ default_model' = Produced(t)')
                /\ (default_model_path' # default_model_path
                      => /\ pc[t] = "set_path" /\ Succeeded(t)
                         /\ default_model_path' = model_path[t])
         ]_vars

\* A call for a file that exists has returned False while a model loaded
\* from another path is held and recorded.
C24_Witness ==
    \E t \in Threads :
        /\ Exhausted(t)
        /\ ret[t] = "False"
        /\ default_model # NoModel
        /\ default_model.path = default_model_path
        /\ default_model_path # model_path[t]

\* C25: after a load call the attempt record has one entry per method that
\* was attempted, in order, and every entry of a method that failed, by an
\* exception or by returning False, carries the cause of the failure.
C25_FailedEntriesCarryCause ==
    \A t \in Threads :
        pc[t] = "load_ret" =>
            /\ ChainOrdered(outer_log[t], loading_methods)
            /\ \A k \in 1..Len(outer_log[t]) :
                  Failed(outer_log[t][k])
                     => LoopLogs(outer_log[t][k].outcome) = "error with cause"

NoRepeats(log) ==
    \A j, k \in 1..Len(log) : log[j].name = log[k].name => j = k

\* C26: every load_model call ends with a result, True or False, given
\* that every method and attempt ends; the lists are finite and no method
\* or attempt is tried twice in one call.
C26_LoadTerminates ==
    /\ [](\A t \in Threads :
             /\ NoRepeats(outer_log[t]) /\ Len(outer_log[t]) <= Len(loading_methods)
             /\ NoRepeats(inner_log[t]) /\ Len(inner_log[t]) <= Len(loading_attempts))
    /\ \A t \in Threads :
          (pc[t] = "load_begin")
             ~> (pc[t] = "load_ret" /\ ret[t] \in {"True", "False"})

\* A call has returned False after it went through all four methods.
C26_Witness ==
    \E t \in Threads :
        /\ pc[t] = "load_ret"
        /\ ret[t] = "False"
        /\ Len(outer_log[t]) = Len(loading_methods)
        /\ outer_log[t][1].attempts = Len(loading_attempts)

\* C27: a load request whose body is no JSON or has no model_path is
\* answered at once with success=false and an error; the request changes
\* neither the loaded flag nor the held model nor the recorded path, and no
\* load_model call and no strategy is started for it.
C27_NoPathNoLoad ==
    [][\A t \in Threads, body \in {"nojson", "nopath"} :
          LoadRouteBegin(t, body)
             => /\ pc'[t] = "responded"
                /\ resp'[t].kind = "load"
                /\ resp'[t].success = "false"
                /\ resp'[t].error # Absent
                /\ UNCHANGED <<globals, outer_log, inner_log, model_path>>
      ]_vars

\* A load request without model_path was refused while a model is loaded.
C27_Witness ==
    \E t \in Threads :
        /\ resp[t] = LoadResponse("false", Absent, Absent, "No model path provided")
        /\ ModelReady

====
